---- MODULE Spec2Model ----
(***************************************************************************)
(* Model of scripts/generate_pornsite.py: the include traversal            *)
(* (load_all), the line transformer (transform) and the two-pass           *)
(* aggregator/writer (main).                                               *)
(*                                                                         *)
(* Strings are sequences of one-character strings, so that strip,          *)
(* startswith, split, lower, 'in', splitlines and join are computed the    *)
(* way Python computes them.                                               *)
(***************************************************************************)
EXTENDS Naturals, Sequences, FiniteSets, TLC

VARIABLES
    fs,             \* the data set: file name -> text, or Missing
    flaky,          \* the names whose open / urlopen raises in this run
    use_local,      \* main: os.path.isdir(local_data_dir)
    pc,             \* position of the run
    queue,          \* load_all: the work queue
    seen,           \* load_all: the visited names
    contents,       \* load_all: name -> text read
    reads,          \* per name, how often read_local / fetch_remote was called
    include_order,  \* main: names of the root file's include directives
    idx,            \* main: position of pass 1 in include_order
    seen_rules,     \* main: the rules emitted so far
    out_lines,      \* main: the document, line by line
    written,        \* the output file: NotWritten, or the text written
    stderr,         \* the messages printed to sys.stderr
    exit,           \* Running, 0 (main returned 0) or Raised (uncaught exception)
    tline,          \* argument of a direct call of transform
    tres            \* its result, Pending before the call

vars == <<fs, flaky, use_local, pc, queue, seen, contents, reads,
          include_order, idx, seen_rules, out_lines, written, stderr, exit,
          tline, tres>>

-----------------------------------------------------------------------------
(* Bounds of the model *)

MaxPad == 1        \* white-space characters around a line given to transform
MaxLines == 3      \* lines of the root file, in the data sets rich in rules
MaxIncLines == 2   \* lines of an included file, and of the other root files
MaxFail == 1       \* sources whose read raises in one run
MaxReads == 2      \* where the count of the reads of one name stops

-----------------------------------------------------------------------------
(* Python string primitives *)

NL == "\n"
EMPTY == << >>

UpperChars == <<"A","B","C","D","E","F","G","H","I","J","K","L","M",
                "N","O","P","Q","R","S","T","U","V","W","X","Y","Z">>
LowerChars == <<"a","b","c","d","e","f","g","h","i","j","k","l","m",
                "n","o","p","q","r","s","t","u","v","w","x","y","z">>

\* str.lower(), one character
LowerChar(c) ==
    IF \E i \in DOMAIN UpperChars : UpperChars[i] = c
    THEN LowerChars[CHOOSE i \in DOMAIN UpperChars : UpperChars[i] = c]
    ELSE c

\* str.lower()
Lower(s) == [i \in 1..Len(s) |-> LowerChar(s[i])]

\* the characters str.strip() removes
IsSpace(c) == c \in {" ", "\t", "\r", NL}

RECURSIVE LStrip(_)
LStrip(s) == IF s # EMPTY /\ IsSpace(Head(s)) THEN LStrip(Tail(s)) ELSE s

RECURSIVE RStrip(_)
RStrip(s) ==
    IF s # EMPTY /\ IsSpace(s[Len(s)]) THEN RStrip(SubSeq(s, 1, Len(s) - 1)) ELSE s

\* str.strip()
Strip(s) == RStrip(LStrip(s))

\* s.startswith(p)
StartsWith(s, p) == Len(s) >= Len(p) /\ SubSeq(s, 1, Len(p)) = p

\* p in s
Contains(s, p) ==
    \E i \in 1..(Len(s) + 1) :
        i + Len(p) - 1 <= Len(s) /\ SubSeq(s, i, i + Len(p) - 1) = p

\* s.split(':', 1)[1], for s that contains ':'
AfterFirstColon(s) ==
    LET i == CHOOSE k \in 1..Len(s) :
                 s[k] = ":" /\ \A j \in 1..(k - 1) : s[j] # ":"
    IN  SubSeq(s, i + 1, Len(s))

\* str.splitlines(), for texts whose only line break is '\n': a line ends
\* at each '\n', and at the end of a text that does not end in '\n'
SplitLines(txt) ==
    LET ends == {k \in 1..Len(txt) : txt[k] = NL}
                    \cup (IF txt # EMPTY /\ txt[Len(txt)] # NL
                          THEN {Len(txt) + 1} ELSE {})
        End(i) == CHOOSE e \in ends : Cardinality({f \in ends : f < e}) = i - 1
        Start(i) == IF i = 1 THEN 1 ELSE End(i - 1) + 1
    IN  [i \in 1..Cardinality(ends) |-> SubSeq(txt, Start(i), End(i) - 1)]

\* '\n'.join(lines)
RECURSIVE JoinLines(_)
JoinLines(lines) ==
    IF lines = << >> THEN EMPTY
    ELSE IF Len(lines) = 1 THEN lines[1]
         ELSE lines[1] \o <<NL>> \o JoinLines(Tail(lines))

-----------------------------------------------------------------------------
(* The literals of the script *)

START == <<"c","a","t","e","g","o","r","y","-","p","o","r","n">>
INCLUDE == <<"i","n","c","l","u","d","e",":">>
REGEXP == <<"r","e","g","e","x","p",":">>
FULL == <<"f","u","l","l",":">>
EHENTAI == <<"e","h","e","n","t","a","i">>
PFX_DOMAIN == <<"D","O","M","A","I","N",",">>
PFX_DOMAIN_KEYWORD == <<"D","O","M","A","I","N","-","K","E","Y","W","O","R","D",",">>
PFX_DOMAIN_SUFFIX == <<"D","O","M","A","I","N","-","S","U","F","F","I","X",",">>
HEADER == <<"#"," ">>
OTHERS == <<"#"," ","o","t","h","e","r","s">>

None == <<"<None>">>       \* Python's None, where a str or None is returned
Pending == <<"<Pending>">>

-----------------------------------------------------------------------------
(* transform *)

\* transform with the 'ehentai' test after the 'full:' branch
transform_full_first(line) ==
    LET l == Strip(line) IN
    IF l = EMPTY \/ StartsWith(l, <<"#">>) THEN None
    ELSE IF StartsWith(l, INCLUDE) THEN None
    ELSE IF StartsWith(l, REGEXP) THEN None
    ELSE IF StartsWith(l, FULL)
         THEN LET v == Strip(AfterFirstColon(l)) IN
              IF Contains(v, <<".">>) THEN PFX_DOMAIN \o v ELSE PFX_DOMAIN_KEYWORD \o v
    ELSE IF Contains(Lower(l), EHENTAI) THEN None
    ELSE IF Contains(l, <<".">>) THEN PFX_DOMAIN_SUFFIX \o l
    ELSE PFX_DOMAIN_KEYWORD \o l

transform(line) ==
    LET l == Strip(line) IN
    IF l = EMPTY \/ StartsWith(l, <<"#">>) THEN None
    ELSE IF StartsWith(l, INCLUDE) THEN None
    ELSE IF StartsWith(l, REGEXP) THEN None
    ELSE IF Contains(Lower(l), EHENTAI) THEN None
    ELSE IF StartsWith(l, FULL)
         THEN LET v == Strip(AfterFirstColon(l)) IN
              IF Contains(v, <<".">>) THEN PFX_DOMAIN \o v ELSE PFX_DOMAIN_KEYWORD \o v
    ELSE IF Contains(l, <<".">>) THEN PFX_DOMAIN_SUFFIX \o l
    ELSE PFX_DOMAIN_KEYWORD \o l

\* 'if t' for t a str or None
Truthy(t) == t # None /\ t # EMPTY

-----------------------------------------------------------------------------
(* The source reader *)

Missing == <<"<Missing>">>      \* no such file in the data set
NotWritten == <<"<NotWritten>">>

FileOf(name) == IF name \in DOMAIN fs THEN fs[name] ELSE Missing

\* what a reader returns: the text, and what it printed to sys.stderr
Got(txt, log) == [txt |-> txt, log |-> log]

\* fetch_remote: urlopen raises for a name the server does not have
fetch_remote(name) ==
    IF name \in flaky \/ FileOf(name) = Missing
    THEN Got(EMPTY, <<[msg |-> "failed to fetch", name |-> name]>>)
    ELSE Got(FileOf(name), << >>)

\* read_local: a name that is no file yields '' without a message
read_local(name) ==
    IF FileOf(name) = Missing THEN Got(EMPTY, << >>)
    ELSE IF name \in flaky
         THEN Got(EMPTY, <<[msg |-> "failed to read", name |-> name]>>)
         ELSE Got(FileOf(name), << >>)

-----------------------------------------------------------------------------
(* load_all                                                                *)
(* In the actions, \E v \in {e} : ... reads "let v be the value of e".      *)

\* 'name in seen' without effect
NeverSeen(name, s) == FALSE

\* line 57: if name in seen: continue
AlreadySeen(name, s) == name \in s

\* line 59: seen.add(name)
MarkSeen(s, name) == s \cup {name}

\* line 70 without the 'ehentai' test
IncludeWantedAny(inc, s) == inc # EMPTY /\ inc \notin s

\* line 70: the condition under which an included name is queued
IncludeWanted(inc, s) ==
    inc # EMPTY /\ ~Contains(Lower(inc), EHENTAI) /\ inc \notin s

\* lines 66-68: the name an include directive gives, None for another line
IncludedBy(rawline) ==
    LET line == Strip(rawline) IN
    IF StartsWith(line, INCLUDE) THEN Strip(AfterFirstColon(line)) ELSE None

\* lines 65-71: the names the for loop appends to the queue
Enqueued(lines, s) ==
    SelectSeq([i \in 1..Len(lines) |-> IncludedBy(lines[i])],
              LAMBDA inc : inc # None /\ IncludeWanted(inc, s))

Bump(n) == IF n < MaxReads THEN n + 1 ELSE n

mainVars == <<include_order, idx, seen_rules, out_lines, written, exit>>
envVars == <<fs, flaky, use_local, tline, tres>>

\* lines 56-58 with the name looked at and left in the queue
LoadSkipPeek ==
    /\ pc = "load"
    /\ queue # << >>
    /\ AlreadySeen(Head(queue), seen)
    /\ UNCHANGED <<queue, pc, seen, contents, reads, stderr, mainVars, envVars>>

\* lines 56-58: a name popped that was read before
LoadSkip ==
    /\ pc = "load"
    /\ queue # << >>
    /\ AlreadySeen(Head(queue), seen)
    /\ queue' = Tail(queue)
    /\ UNCHANGED <<pc, seen, contents, reads, stderr, mainVars, envVars>>

\* lines 56-71: a name popped, read and scanned for include directives
LoadRead ==
    /\ pc = "load"
    /\ queue # << >>
    /\ \E name \in {Head(queue)} :
       /\ ~AlreadySeen(name, seen)
       /\ \E seen1 \in {MarkSeen(seen, name)},
             got \in {IF use_local THEN read_local(name) ELSE fetch_remote(name)} :
          /\ seen' = seen1
          /\ reads' = [n \in DOMAIN reads \cup {name} |->
                          IF n = name
                          THEN Bump(IF n \in DOMAIN reads THEN reads[n] ELSE 0)
                          ELSE reads[n]]
          /\ stderr' = stderr \o got.log
          /\ contents' = [n \in DOMAIN contents \cup {name} |->
                             IF n = name THEN got.txt ELSE contents[n]]
          /\ \E lines \in {SplitLines(got.txt)} :
                queue' = Tail(queue) \o Enqueued(lines, seen1)
    /\ UNCHANGED <<pc, mainVars, envVars>>

\* lines 55, 73: the queue is empty, load_all returns
LoadReturn ==
    /\ pc = "load"
    /\ queue = << >>
    /\ pc' = "order"
    /\ UNCHANGED <<queue, seen, contents, reads, stderr, mainVars, envVars>>

-----------------------------------------------------------------------------
(* main *)

\* contents.get(START, '')
main_txt == IF START \in DOMAIN contents THEN contents[START] ELSE EMPTY

\* lines 113-119 with the names collected in a set and sorted by first use
IncludeOrderOnce(lines) ==
    LET all == SelectSeq([i \in 1..Len(lines) |-> IncludedBy(lines[i])],
                         LAMBDA inc : inc # None /\ inc # EMPTY)
        firsts == {i \in 1..Len(all) : \A j \in 1..(i - 1) : all[j] # all[i]}
        Nth(k) == CHOOSE i \in firsts : Cardinality({f \in firsts : f < i}) = k - 1
    IN  [k \in 1..Cardinality(firsts) |-> all[Nth(k)]]

\* lines 113-119
IncludeOrderOf(lines) ==
    SelectSeq([i \in 1..Len(lines) |-> IncludedBy(lines[i])],
              LAMBDA inc : inc # None /\ inc # EMPTY)

\* 't not in seen_rules' without effect
AlwaysNew(t, rules) == TRUE

\* lines 130, 140: t not in seen_rules
NotYetEmitted(t, rules) == t \notin rules

\* lines 128-132 and 139-142: the rules a list of lines adds to the document
RECURSIVE EmitRules(_, _, _)
EmitRules(lines, rules, acc) ==
    IF lines = << >> THEN [out |-> acc, rules |-> rules]
    ELSE LET t == transform(Head(lines)) IN
         IF Truthy(t) /\ NotYetEmitted(t, rules)
         THEN EmitRules(Tail(lines), rules \cup {t}, Append(acc, t))
         ELSE EmitRules(Tail(lines), rules, acc)

\* a block whose header line is the bare name
BlockLinesUnmarked(inc, emitted) == <<inc>> \o emitted \o <<EMPTY>>

\* a block without its separator line when it adds no rule
BlockLinesBare(inc, emitted) ==
    IF emitted = << >> THEN <<HEADER \o inc>>
    ELSE <<HEADER \o inc>> \o emitted \o <<EMPTY>>

\* lines 127-133: the lines of one include block
BlockLines(inc, emitted) == <<HEADER \o inc>> \o emitted \o <<EMPTY>>

\* lines 136-138: the root file's lines pass 2 looks at
OwnLines(lines) == SelectSeq(lines, LAMBDA line : ~StartsWith(Strip(line), INCLUDE))

loadVars == <<queue, seen, contents, reads>>

\* lines 112-122
ReadOrder ==
    /\ pc = "order"
    /\ \E lines \in {SplitLines(main_txt)} : include_order' = IncludeOrderOf(lines)
    /\ idx' = 1
    /\ seen_rules' = {}
    /\ out_lines' = << >>
    /\ pc' = "pass1"
    /\ UNCHANGED <<loadVars, stderr, written, exit, envVars>>

\* lines 124-126: a name without an entry in contents
Pass1Skip ==
    /\ pc = "pass1"
    /\ idx <= Len(include_order)
    /\ include_order[idx] \notin DOMAIN contents
    /\ idx' = idx + 1
    /\ UNCHANGED <<pc, include_order, seen_rules, out_lines, written, exit,
                   loadVars, stderr, envVars>>

\* lines 124-133: one include block
Pass1Block ==
    /\ pc = "pass1"
    /\ idx <= Len(include_order)
    /\ \E inc \in {include_order[idx]} :
       /\ inc \in DOMAIN contents
       /\ \E lines \in {SplitLines(contents[inc])} :
          \E e \in {EmitRules(lines, seen_rules, << >>)} :
             /\ out_lines' = out_lines \o BlockLines(inc, e.out)
             /\ seen_rules' = e.rules
    /\ idx' = idx + 1
    /\ UNCHANGED <<pc, include_order, written, exit, loadVars, stderr, envVars>>

\* lines 135-142: the trailing block
Pass2 ==
    /\ pc = "pass1"
    /\ idx > Len(include_order)
    /\ \E lines \in {SplitLines(main_txt)} :
       \E e \in {EmitRules(OwnLines(lines), seen_rules, << >>)} :
          /\ out_lines' = out_lines \o <<OTHERS>> \o e.out
          /\ seen_rules' = e.rules
    /\ pc' = "mkdir"
    /\ UNCHANGED <<include_order, idx, written, exit, loadVars, stderr, envVars>>

\* lines 145-146: os.makedirs is outside the try block
MakeDirs ==
    /\ pc = "mkdir"
    /\ \E ok \in BOOLEAN :
          IF ok
          THEN /\ pc' = "write"
               /\ UNCHANGED <<exit, stderr>>
          ELSE /\ pc' = "done"
               /\ exit' = "Raised"
               /\ stderr' = Append(stderr, [msg |-> "Traceback", name |-> EMPTY])
    /\ UNCHANGED <<include_order, idx, seen_rules, out_lines, written,
                   loadVars, envVars>>

\* lines 147-155: open raises, write raises, or the document is written
WriteOut ==
    /\ pc = "write"
    /\ \E outcome \in {"written", "open raised", "write raised"} :
          /\ written' = CASE outcome = "written" -> JoinLines(out_lines)
                          [] outcome = "open raised" -> written
                          [] outcome = "write raised" -> EMPTY
          /\ stderr' = IF outcome = "written" THEN stderr
                       ELSE Append(stderr, [msg |-> "Error writing", name |-> EMPTY])
    /\ exit' = "0"
    /\ pc' = "done"
    /\ UNCHANGED <<include_order, idx, seen_rules, out_lines, loadVars, envVars>>

\* a direct call of transform
CallTransform ==
    /\ pc = "transform"
    /\ tres = Pending
    /\ tres' = transform(tline)
    /\ UNCHANGED <<fs, flaky, use_local, pc, loadVars, mainVars, stderr, tline>>

-----------------------------------------------------------------------------
(* The data sets and lines the runs are checked on *)

X == <<"x">>
Y == <<"y">>
EH == <<"E","H","e","n","t","a","i">>
FOO == <<"f","o","o",".","c","o","m">>
BAR == <<"b","a","r",".","c","o","m">>
COMMENT == <<"#","c","o","m","m","e","n","t">>

Inc(name) == INCLUDE \o name

SeqsUpTo(pool, n) == UNION {[1..k -> pool] : k \in 0..n}

RECURSIVE TextOf(_)
TextOf(lines) ==
    IF lines = << >> THEN EMPTY ELSE Head(lines) \o <<NL>> \o TextOf(Tail(lines))

TextsOver(pool, n) == {TextOf(ls) : ls \in SeqsUpTo(pool, n)}

DataSet(r, x, y) ==
    [n \in {START, X, Y, EH} |->
        CASE n = START -> r
          [] n = X -> x
          [] n = Y -> y
          [] n = EH -> TextOf(<<BAR>>)]

\* data sets rich in rules
RootTexts == TextsOver({Inc(X), Inc(Y), Inc(EH), FOO}, MaxLines)
XTexts == TextsOver({FULL \o BAR, COMMENT, FOO, Inc(Y)}, MaxIncLines)
YTexts == {TextOf(<<FOO>>)}

\* data sets rich in include directives
GraphRootTexts == TextsOver({Inc(X), Inc(Y), Inc(EH)}, MaxIncLines)
GraphXTexts ==
    {TextOf(ls) : ls \in {<< >>, <<Inc(Y)>>, <<Inc(X)>>, <<Inc(START)>>,
                          <<Inc(Y), Inc(START)>>, <<Inc(X), Inc(START)>>,
                          <<Inc(EH), Inc(Y)>>,
                          <<INCLUDE, FOO>>, <<Inc(Y), Inc(Y)>>}}
GraphYTexts ==
    {TextOf(ls) : ls \in {<< >>, <<Inc(X)>>, <<FOO>>, <<Inc(START), FOO>>}}
        \cup {Missing}

Pads == SeqsUpTo({" ", "\t"}, MaxPad)
Prefixes == {EMPTY, FULL, <<"F","U","L","L",":">>, INCLUDE,
             <<"I","n","c","l","u","d","e",":">>, REGEXP, <<"#">>}
Bodies == {EMPTY, <<"a">>, <<"a",".","b">>, EHENTAI, <<"x",".">> \o EH \o <<".","y">>,
           <<"a",":","b",".","c">>, <<"a"," ","b">>}
TLines == {lead \o p \o gap \o b \o trail :
              lead \in Pads, p \in Prefixes, gap \in {EMPTY, <<" ">>},
              b \in Bodies, trail \in Pads}

-----------------------------------------------------------------------------
(* Specifications *)

InitRun ==
    /\ pc = "load"
    /\ queue = <<START>>
    /\ seen = {}
    /\ contents = [n \in {} |-> EMPTY]
    /\ reads = [n \in {} |-> 0]
    /\ include_order = << >>
    /\ idx = 1
    /\ seen_rules = {}
    /\ out_lines = << >>
    /\ written = NotWritten
    /\ stderr = << >>
    /\ exit = "Running"
    /\ tline = EMPTY
    /\ tres = Pending

\* runs over data sets rich in rules, every source readable
Init ==
    /\ fs \in {DataSet(r, x, y) : r \in RootTexts, x \in XTexts, y \in YTexts}
    /\ flaky = {}
    /\ use_local = TRUE
    /\ InitRun

\* runs over data sets rich in include directives, in both modes, with
\* missing files and sources whose read raises
InitIO ==
    /\ fs \in {DataSet(r, x, y) :
                  r \in GraphRootTexts, x \in GraphXTexts, y \in GraphYTexts}
    /\ flaky \in {f \in SUBSET {START, X, Y} : Cardinality(f) <= MaxFail}
    /\ use_local \in BOOLEAN
    /\ InitRun

\* runs over the data sets of three root files
InitCyclic ==
    /\ fs \in {DataSet(TextOf(r), x, y) :
                  r \in {<<Inc(X)>>, <<Inc(X), Inc(Y)>>, <<Inc(Y), Inc(EH), Inc(X)>>},
                  x \in GraphXTexts, y \in GraphYTexts}
    /\ flaky \in {f \in SUBSET {START, X, Y} : Cardinality(f) <= MaxFail}
    /\ use_local = FALSE
    /\ InitRun

\* direct calls of transform
InitT ==
    /\ fs = DataSet(EMPTY, EMPTY, EMPTY)
    /\ flaky = {}
    /\ use_local = TRUE
    /\ pc = "transform"
    /\ queue = << >>
    /\ seen = {}
    /\ contents = [n \in {} |-> EMPTY]
    /\ reads = [n \in {} |-> 0]
    /\ include_order = << >>
    /\ idx = 1
    /\ seen_rules = {}
    /\ out_lines = << >>
    /\ written = NotWritten
    /\ stderr = << >>
    /\ exit = "Running"
    /\ tline \in TLines
    /\ tres = Pending

Next ==
    \/ LoadSkip
    \/ LoadRead
    \/ LoadReturn
    \/ ReadOrder
    \/ Pass1Skip
    \/ Pass1Block
    \/ Pass2
    \/ MakeDirs
    \/ WriteOut

NextT == CallTransform

Spec == Init /\ [][Next]_vars
SpecIO == InitIO /\ [][Next]_vars
\* the script runs on: a read returns or raises within its timeout
FairSpec == InitCyclic /\ [][Next]_vars /\ WF_vars(Next)
SpecT == InitT /\ [][NextT]_vars

-----------------------------------------------------------------------------
(* Reading the output document and the data set *)

\* str.split('\n'): the lines of a document
RECURSIVE SplitNL(_)
SplitNL(doc) ==
    IF \E k \in 1..Len(doc) : doc[k] = NL
    THEN LET i == CHOOSE k \in 1..Len(doc) :
                      doc[k] = NL /\ \A j \in 1..(k - 1) : doc[j] # NL
         IN  <<SubSeq(doc, 1, i - 1)>> \o SplitNL(SubSeq(doc, i + 1, Len(doc)))
    ELSE <<doc>>

\* main has written the whole document
Wrote == pc = "done" /\ written # NotWritten /\ written # EMPTY

DocLines == SplitNL(written)

HasPrefix(l, p) == Len(p) <= Len(l) /\ \A i \in 1..Len(p) : l[i] = p[i]
HasDot(v) == \E i \in 1..Len(v) : v[i] = "."
NamesEhentai(v) ==
    \E i \in 1..Len(v) :
        /\ i + Len(EHENTAI) - 1 <= Len(v)
        /\ \A k \in 1..Len(EHENTAI) : LowerChar(v[i + k - 1]) = EHENTAI[k]

IsHeaderLine(l) == HasPrefix(l, HEADER) /\ Len(l) > Len(HEADER)
IsRuleLine(l) ==
    \/ HasPrefix(l, PFX_DOMAIN)
    \/ HasPrefix(l, PFX_DOMAIN_KEYWORD)
    \/ HasPrefix(l, PFX_DOMAIN_SUFFIX)

Range(f) == {f[i] : i \in DOMAIN f}

\* the name of the include directive on a line, EMPTY if there is none
DirectiveOn(line) ==
    LET l == Strip(line) IN
    IF HasPrefix(l, INCLUDE) THEN Strip(SubSeq(l, Len(INCLUDE) + 1, Len(l))) ELSE EMPTY

RECURSIVE DirectivesIn(_)
DirectivesIn(lines) ==
    IF lines = << >> THEN << >>
    ELSE IF DirectiveOn(Head(lines)) # EMPTY
         THEN <<DirectiveOn(Head(lines))>> \o DirectivesIn(Tail(lines))
         ELSE DirectivesIn(Tail(lines))

\* the names of the include directives of a text, in source order
DirectiveNames(txt) == DirectivesIn(SplitNL(txt))

\* a sequence without the later occurrences of its elements
FirstOccurrences(seq) ==
    LET tagged == [i \in 1..Len(seq) |-> <<i, seq[i]>>]
        kept == SelectSeq(tagged, LAMBDA p : \A j \in 1..(p[1] - 1) : seq[j] # p[2])
    IN  [k \in 1..Len(kept) |-> kept[k][2]]

\* the text a read of name delivers in this run
Delivered(name) ==
    IF FileOf(name) = Missing \/ name \in flaky THEN EMPTY ELSE FileOf(name)

\* the names a file's include directives lead to
Links(name) == {n \in Range(DirectiveNames(Delivered(name))) : ~NamesEhentai(n)}

RECURSIVE Closure(_)
Closure(S) ==
    LET T == S \cup UNION {Links(n) : n \in S} IN
    IF T = S THEN S ELSE Closure(T)

Reachable == Closure({START})

\* the rules a list of lines adds to a document that holds the rules 'rules'
NewRules(lines, rules) ==
    LET ts == [i \in 1..Len(lines) |-> transform(lines[i])]
        tagged == [i \in 1..Len(lines) |-> <<i, ts[i]>>]
        kept == SelectSeq(tagged, LAMBDA p :
                    /\ p[2] # None
                    /\ p[2] \notin rules
                    /\ \A j \in 1..(p[1] - 1) : ts[j] # p[2])
    IN  [k \in 1..Len(kept) |-> kept[k][2]]

Occurrences(lines, line) == Cardinality({i \in DOMAIN lines : lines[i] = line})

-----------------------------------------------------------------------------
(* C1 *)

\* C1: no rule line occurs twice in the document main writes.
C1_NoRuleTwice ==
    Wrote =>
        \A i, j \in DOMAIN DocLines :
            (i < j /\ IsRuleLine(DocLines[i])) => DocLines[i] # DocLines[j]

\* the same raw value twice in one included file, in a second included file
\* and among the root file's own lines
C1_Witness ==
    /\ Wrote
    /\ {X, Y} \subseteq DOMAIN contents
    /\ Occurrences(SplitLines(contents[X]), FOO) >= 2
    /\ Occurrences(SplitLines(contents[Y]), FOO) = 1
    /\ Occurrences(SplitLines(contents[START]), FOO) = 1
    /\ include_order = <<X, Y>>
    /\ Occurrences(DocLines, PFX_DOMAIN_SUFFIX \o FOO) = 1

-----------------------------------------------------------------------------
(* C2 *)

\* C2: every line, of every file load_all collected, that transform does not
\* drop has its rule in the document main writes.
C2_AllCollectedEmitted ==
    Wrote =>
        \A n \in DOMAIN contents :
            \A line \in Range(SplitLines(contents[n])) :
                transform(line) # None => transform(line) \in Range(DocLines)

-----------------------------------------------------------------------------
(* C3 *)

\* the steps of the decision list that match the trimmed line l
StepMatches(k, l) ==
    CASE k = 1 -> l = EMPTY
      [] k = 2 -> HasPrefix(l, <<"#">>)
      [] k = 3 -> HasPrefix(l, INCLUDE)
      [] k = 4 -> HasPrefix(l, REGEXP)
      [] k = 5 -> NamesEhentai(l)
      [] k = 6 -> HasPrefix(l, FULL)
      [] k = 7 -> TRUE

FirstStep(l) ==
    CHOOSE k \in 1..7 : StepMatches(k, l) /\ \A j \in 1..(k - 1) : ~StepMatches(j, l)

StepOutcome(k, l) ==
    IF k <= 5 THEN None
    ELSE IF k = 6
         THEN LET v == Strip(SubSeq(l, Len(FULL) + 1, Len(l))) IN
              IF HasDot(v) THEN PFX_DOMAIN \o v ELSE PFX_DOMAIN_KEYWORD \o v
         ELSE IF HasDot(l) THEN PFX_DOMAIN_SUFFIX \o l ELSE PFX_DOMAIN_KEYWORD \o l

\* C3: transform returns the outcome of the first matching step of the
\* decision list, the steps tested on the trimmed line; the prefixes are
\* matched case-sensitively, 'ehentai' in any letter case.
C3_DecisionList ==
    tres # Pending => tres = StepOutcome(FirstStep(Strip(tline)), Strip(tline))

\* 'full:' before a value that names ehentai, inside white space: step 5 wins
C3_Witness ==
    /\ tres = None
    /\ tline # Strip(tline)
    /\ HasPrefix(Strip(tline), FULL)
    /\ NamesEhentai(tline)

-----------------------------------------------------------------------------
(* C4 *)

\* the '# <name>' lines before the '# others' line
HeadersBeforeOthers(lines) ==
    LET k == CHOOSE i \in DOMAIN lines :
                 lines[i] = OTHERS /\ \A j \in 1..(i - 1) : lines[j] # OTHERS
    IN  SelectSeq(SubSeq(lines, 1, k - 1), IsHeaderLine)

HeadersOf(names) == [i \in 1..Len(names) |-> HEADER \o names[i]]

Collected(names) == SelectSeq(names, LAMBDA n : n \in DOMAIN contents)

\* C4 as stated: the block headers are the names of the root file's include
\* directives in first-occurrence order, each heading exactly one block.
C4_FirstOccurrenceHeaders ==
    Wrote =>
        HeadersBeforeOthers(DocLines)
            = HeadersOf(FirstOccurrences(Collected(DirectiveNames(main_txt))))

\* C4 amended: the block headers are the names of the root file's include
\* directives that have an entry in the file map, in source order, a name
\* heading one block for each of its directives.
C4_SourceOrderHeaders ==
    Wrote =>
        HeadersBeforeOthers(DocLines) = HeadersOf(Collected(DirectiveNames(main_txt)))

\* the root file includes y, x and y again, and x includes y: the traversal
\* read y and x once each, and the document has three blocks
C4_Witness ==
    /\ Wrote
    /\ DirectiveNames(main_txt) = <<Y, X, Y>>
    /\ X \in DOMAIN contents
    /\ Y \in Range(DirectiveNames(contents[X]))
    /\ HeadersBeforeOthers(DocLines) = <<HEADER \o Y, HEADER \o X, HEADER \o Y>>

-----------------------------------------------------------------------------
(* C5 *)

\* C5: whichever reads fail and whether creating the directory or writing
\* the file fails, each failure is logged and main returns 0.
C5_NeverAborts ==
    pc = "done" =>
        /\ exit = "0"
        /\ \A n \in DOMAIN contents :
               (FileOf(n) = Missing \/ n \in flaky) =>
                   \E i \in DOMAIN stderr : stderr[i].name = n

-----------------------------------------------------------------------------
(* C6 *)

\* C6 as stated: every line of the document is a header line or a rule line.
C6_TwoKinds ==
    Wrote => \A i \in DOMAIN DocLines : IsHeaderLine(DocLines[i]) \/ IsRuleLine(DocLines[i])

\* C6 amended: every line of the document is a header line, a rule line or
\* the empty line that ends an include block.
C6_ThreeKinds ==
    Wrote =>
        \A i \in DOMAIN DocLines :
            \/ IsHeaderLine(DocLines[i])
            \/ IsRuleLine(DocLines[i])
            \/ /\ DocLines[i] = EMPTY
               /\ i < Len(DocLines)
               /\ IsHeaderLine(DocLines[i + 1])

C6_Witness ==
    /\ Wrote
    /\ \E i, j, k \in DOMAIN DocLines :
          /\ IsHeaderLine(DocLines[i])
          /\ IsRuleLine(DocLines[j])
          /\ DocLines[k] = EMPTY

-----------------------------------------------------------------------------
(* C7 *)

\* C7: no name is read more than once in a run.
C7_ReadAtMostOnce == \A n \in DOMAIN reads : reads[n] <= 1

\* a name sits in the queue twice before it is first popped, in a data set
\* whose include graph has a cycle
C7_Witness ==
    /\ pc = "load"
    /\ \E i, j \in DOMAIN queue : i < j /\ queue[i] = queue[j] /\ queue[i] \notin seen
    /\ START \in Links(X)

-----------------------------------------------------------------------------
(* C8 *)

\* C8: load_all returns a map whose keys are the root and the names reachable
\* from it through include directives with a non-empty name without 'ehentai';
\* no name with 'ehentai' is ever queued, read or stored; the root is read once.
C8_KeysAreReachable ==
    /\ pc # "load" => DOMAIN contents = Reachable
    /\ \A n \in Range(queue) \cup seen \cup DOMAIN contents \cup DOMAIN reads :
           ~NamesEhentai(n)
    /\ pc # "load" => reads[START] = 1

\* the root includes a name with 'ehentai', and an included file the root
C8_Witness ==
    /\ pc = "order"
    /\ EH \in Range(DirectiveNames(contents[START]))
    /\ X \in DOMAIN contents
    /\ START \in Range(DirectiveNames(contents[X]))
    /\ Y \in DOMAIN contents

-----------------------------------------------------------------------------
(* C9 *)

\* C9: the traversal terminates: the queue becomes empty and load_all returns.
C9_Terminates == <>(pc # "load" /\ queue = << >>)

\* load_all has returned on a data set with a self-include, a cycle through
\* the root and a source whose read raised
C9_Witness ==
    /\ pc = "order"
    /\ X \in Links(X)
    /\ START \in Links(X)
    /\ Y \in flaky
    /\ FileOf(Y) \notin {Missing, EMPTY}
    /\ Y \in DOMAIN contents
    /\ contents[Y] = EMPTY

-----------------------------------------------------------------------------
(* C10 *)

ExampleRoot == TextOf(<<Inc(X), FOO>>)
ExampleX == TextOf(<<FULL \o BAR, COMMENT>>)
ExampleDocument ==
    JoinLines(<<HEADER \o X, PFX_DOMAIN \o BAR, EMPTY, OTHERS, PFX_DOMAIN_SUFFIX \o FOO>>)

C10_Pass1Step ==
    (pc = "pass1" /\ idx <= Len(include_order)) =>
        LET inc == include_order[idx] IN
        /\ idx' = idx + 1
        /\ IF inc \notin DOMAIN contents
           THEN out_lines' = out_lines /\ seen_rules' = seen_rules
           ELSE LET new == NewRules(SplitLines(contents[inc]), seen_rules) IN
                /\ out_lines' = out_lines \o <<HEADER \o inc>> \o new \o <<EMPTY>>
                /\ seen_rules' = seen_rules \cup Range(new)

C10_Pass2Step ==
    (pc = "pass1" /\ idx > Len(include_order)) =>
        LET lines == SplitLines(main_txt)
            own == SelectSeq(lines, LAMBDA line : ~HasPrefix(Strip(line), INCLUDE))
        IN  out_lines' = out_lines \o <<OTHERS>> \o NewRules(own, seen_rules)

C10_Order == pc = "pass1" => include_order = DirectiveNames(main_txt)

C10_Example ==
    (Wrote /\ fs[START] = ExampleRoot /\ fs[X] = ExampleX /\ flaky = {})
        => written = ExampleDocument

\* C10: pass 1 walks the root file's include directives in source order; a
\* name without an entry adds nothing; any other adds its header, its rules
\* not yet emitted (in file order, each entering the rule set) and one empty
\* line, also when it adds no rule; pass 2 adds '# others' and the not yet
\* emitted rules of the root file's other lines; the example yields its document.
C10_TwoPasses ==
    /\ [][C10_Pass1Step /\ C10_Pass2Step]_vars
    /\ [](C10_Order /\ C10_Example)

\* the run of the example has written the example's document
C10_Witness ==
    /\ Wrote
    /\ fs[START] = ExampleRoot
    /\ fs[X] = ExampleX
    /\ written = ExampleDocument

====
